---- MODULE Spec2Model ----
(***************************************************************************)
(* pyramid_ldap3: LDAP authentication and group lookup for Pyramid.        *)
(*                                                                         *)
(* The model follows src/pyramid_ldap3/__init__.py: the time-bucketed      *)
(* cache of _LDAPQuery, ConnectionManager.connection, the two Connector    *)
(* methods, the configuration directives, get_ldap_connector and           *)
(* groupfinder.  The directory server and the ldap3 client library are the *)
(* environment: what a search returns, whether a bind is accepted and      *)
(* whether an operation raises LDAPException are chosen nondeterministically*)
(* at the step that performs the operation.                                *)
(*                                                                         *)
(* Optional Python values are sequences of length 0 (None) or 1 (a value). *)
(*                                                                         *)
(* Spec is a server with one request thread, SpecConc one with a thread    *)
(* per request whose steps interleave, SpecURI the configuration alone     *)
(* over the URIs ldap_setup may be given.                                  *)
(***************************************************************************)
EXTENDS Integers, Sequences, FiniteSets, TLC

\* ------------------------------------------------------------------------
\* Bounds of the model
\* ------------------------------------------------------------------------

\* request-handling threads
NumRequests == 2

\* the clock runs from 0 to MaxTime seconds
MaxTime == 3

\* the positive cache period a query may be registered with
CachePeriod == 2

\* ldap_setup may be called this many times while configuring
MaxSetups == 1

Requests == 1..NumRequests

\* ------------------------------------------------------------------------
\* Python values
\* ------------------------------------------------------------------------

None == <<>>

Some(v) == <<v>>

\* the passwords the directory holds
DirectoryPasswords == {"hunter2", "secret"}

\* a password argument that is the Python None (distinct from every string)
NoPassword == "{None}"

\* Python truthiness of a string-or-None value ("if user:")
Truthy(v) == v # "" /\ v # NoPassword

Logins == {"alice", "bob"}

Passwords == DirectoryPasswords \cup {"", NoPassword}

UserDNs == {"cn=alice"}

\* ------------------------------------------------------------------------
\* The directory (environment)
\* ------------------------------------------------------------------------

\* an entry of a search response: a mapping with a 'dn' key, except for
\* entries such as search references, which carry none
E_alice == [dn |-> "cn=alice", attributes |-> "uid=alice"]

E_bob == [dn |-> "cn=bob", attributes |-> "uid=bob"]

\* the entry whose distinguished name is the empty string (the root DSE)
E_root == [dn |-> "", attributes |-> "rootDSE"]

E_ref == [uri |-> "ldap://other.example.com"]

G_admins == [dn |-> "cn=admins", attributes |-> "cn=admins"]

G_staff == [dn |-> "cn=staff", attributes |-> "cn=staff"]

\* the responses the login search may produce: ordered sequences of entries
LoginResults ==
    { <<>>, <<E_alice>>, <<E_bob, E_alice>>, <<E_root>>, <<E_ref>> }

\* the responses the groups search may produce
GroupsResults == { <<>>, <<G_staff, G_admins>>, <<G_admins, E_ref>> }

\* the responses a search with the given query may produce
SearchResults(query) ==
    IF query = "ldap_login_query" THEN LoginResults ELSE GroupsResults

\* the password the directory holds for a distinguished name
DirPassword(dn) == IF dn = "cn=alice" THEN "secret" ELSE "hunter2"

\* a simple bind the directory accepts: name and matching password
DirAccepts(user, password) ==
    /\ user \in {"cn=alice", "cn=bob"}
    /\ password = DirPassword(user)

\* a bind with a name and no password is an unauthenticated bind
\* (RFC 4513, 5.1.2), which a server may complete successfully
Unauthenticated(user, password) == password \in {"", NoPassword}

\* ------------------------------------------------------------------------
\* _LDAPQuery
\* ------------------------------------------------------------------------

\* a template is a sequence of literal parts and named placeholders
Lit(s) == [lit |-> s]

Ph(n) == [ph |-> n]

\* str() as applied by the % operator
Str(v) == IF v = NoPassword THEN "None" ELSE v

\* tmpl % kw: every placeholder replaced by the value of its keyword
Render(tmpl, kw) ==
    [i \in 1..Len(tmpl) |->
        IF "ph" \in DOMAIN tmpl[i] THEN Str(kw[tmpl[i].ph]) ELSE tmpl[i].lit]

LoginBaseDN == <<Lit("CN=Users,DC=example,DC=com")>>

LoginFilter == <<Lit("(sAMAccountName="), Ph("login"), Lit(")")>>

GroupsBaseDN == <<Lit("CN=Groups,DC=example,DC=com")>>

GroupsFilter ==
    <<Lit("(&(objectCategory=group)(member="), Ph("userdn"), Lit("))")>>

SEARCH_SCOPE_SINGLE_LEVEL == "LEVEL"

SEARCH_SCOPE_WHOLE_SUBTREE == "SUBTREE"

EmptyCache == [k \in {} |-> <<>>]

\* _LDAPQuery.__init__.  looked_up is history: for every key of cache, the
\* time slice in which the execute that stored it had looked the key up
LDAPQuery(base_dn, filter_tmpl, scope, cache_period) ==
    [base_dn |-> base_dn, filter_tmpl |-> filter_tmpl, scope |-> scope,
     cache_period |-> cache_period, last_timeslice |-> 0,
     cache |-> EmptyCache, looked_up |-> EmptyCache]

\* the key execute computes from its keyword arguments
CacheKey(q, kw) ==
    <<Render(q.base_dn, kw), Render(q.filter_tmpl, kw), q.scope>>

_timeslice(period, when) == when - (when % period)

\* Expired with the comparison slackened: every access starts a new slice
ExpiredOnEveryAccess(q, ts) == ts >= q.last_timeslice

\* query_cache's test: the time slice of now is later than the last one seen
Expired(q, ts) == ts > q.last_timeslice

\* Dumped leaving the mapping as it was
DumpedNothing(q) == q

\* self.cache = {}: the whole mapping is dropped
Dumped(q) == [q EXCEPT !.cache = EmptyCache, !.looked_up = EmptyCache]

\* dict.get: the stored value, or None
CacheGet(cache, cache_key) ==
    IF cache_key \in DOMAIN cache THEN Some(cache[cache_key]) ELSE None

\* self.cache[cache_key] = result
CachePut(cache, cache_key, result) ==
    [k \in DOMAIN cache \cup {cache_key} |->
        IF k = cache_key THEN result ELSE cache[k]]

\* the query once an execute that looked cache_key up in time slice ts has
\* stored result
Stored(q, cache_key, result, ts) ==
    [q EXCEPT !.cache = CachePut(q.cache, cache_key, result),
              !.looked_up = CachePut(q.looked_up, cache_key, ts)]

\* ------------------------------------------------------------------------
\* ConnectionManager
\* ------------------------------------------------------------------------

\* a URI is a string, kept as the sequence of its characters
SchemeSeparator == <<":", "/", "/">>

PortSeparator == <<":">>

Digit == {"0", "1", "2", "3", "4", "5", "6", "7", "8", "9"}

DigitValue(ch) ==
    CASE ch = "0" -> 0 [] ch = "1" -> 1 [] ch = "2" -> 2 [] ch = "3" -> 3
      [] ch = "4" -> 4 [] ch = "5" -> 5 [] ch = "6" -> 6 [] ch = "7" -> 7
      [] ch = "8" -> 8 [] ch = "9" -> 9

\* the position of the first occurrence of sep in s, 0 when there is none
Find(s, sep) ==
    LET at == {i \in 1..(Len(s) - Len(sep) + 1) :
                  SubSeq(s, i, i + Len(sep) - 1) = sep}
    IN  IF at = {} THEN 0 ELSE CHOOSE i \in at : \A j \in at : i <= j

\* s.split(sep, 1): one part when sep does not occur, else the part before
\* and the part after its first occurrence
Split(s, sep) ==
    LET i == Find(s, sep)
    IN  IF i = 0
        THEN <<s>>
        ELSE <<SubSeq(s, 1, i - 1), SubSeq(s, i + Len(sep), Len(s))>>

\* int(s) succeeds on a string of decimal digits
IsInt(s) == Len(s) > 0 /\ \A i \in 1..Len(s) : s[i] \in Digit

RECURSIVE ParseInt(_)
ParseInt(s) ==
    IF Len(s) = 0
    THEN 0
    ELSE 10 * ParseInt(SubSeq(s, 1, Len(s) - 1)) + DigitValue(s[Len(s)])

LDAP_PORT == 389

LDAPS_PORT == 636

\* ParseURI falling back to the plaintext port whatever the scheme
ParseURIPlainDefaultPort(uri) ==
    LET parts == Split(uri, SchemeSeparator)
        schema == IF Len(parts) = 2 THEN parts[1] ELSE <<"l", "d", "a", "p">>
        rest == IF Len(parts) = 2 THEN parts[2] ELSE uri
        use_ssl == schema = <<"l", "d", "a", "p", "s">>
        hostport == Split(rest, PortSeparator)
    IN  IF Len(hostport) = 2 /\ IsInt(hostport[2])
        THEN [host |-> hostport[1], port |-> ParseInt(hostport[2]),
              use_ssl |-> use_ssl]
        ELSE [host |-> hostport[1], port |-> LDAP_PORT, use_ssl |-> use_ssl]

\* the host, port and use_ssl ConnectionManager.__init__ derives from uri.
\* When the text after the colon is no integer, host has already been
\* rebound to the part before the colon.
ParseURI(uri) ==
    LET parts == Split(uri, SchemeSeparator)
        schema == IF Len(parts) = 2 THEN parts[1] ELSE <<"l", "d", "a", "p">>
        rest == IF Len(parts) = 2 THEN parts[2] ELSE uri
        use_ssl == schema = <<"l", "d", "a", "p", "s">>
        hostport == Split(rest, PortSeparator)
        default == IF use_ssl THEN LDAPS_PORT ELSE LDAP_PORT
    IN  IF Len(hostport) = 2 /\ IsInt(hostport[2])
        THEN [host |-> hostport[1], port |-> ParseInt(hostport[2]),
              use_ssl |-> use_ssl]
        ELSE [host |-> hostport[1], port |-> default, use_ssl |-> use_ssl]

\* ConnectionManager.__init__ (the n-th manager constructed)
ConnectionManager(n, uri) ==
    [id |-> n, uri |-> uri, server |-> ParseURI(uri),
     bind |-> "cn=service", passwd |-> "servicepw",
     strategy |-> "REUSABLE_THREADED", pool_name |-> "pyramid_ldap3"]

\* the connection ConnectionManager.connection constructs: for a truthy
\* user a synchronous one for that user, otherwise the manager's own
Connection(manager, user, password) ==
    IF Truthy(user)
    THEN [user |-> user, password |-> password, strategy |-> "SYNC",
          pool_name |-> "none"]
    ELSE [user |-> manager.bind, password |-> manager.passwd,
          strategy |-> manager.strategy, pool_name |-> manager.pool_name]

\* ------------------------------------------------------------------------
\* State
\* ------------------------------------------------------------------------

VARIABLES
    phase,              \* "config" while directives run, then "serving"
    clock,              \* time()
    registry,           \* ldap_login_query, ldap_groups_query (optional)
    request_property,   \* the get_connector closure ldap_setup registers
    managers_created,   \* ConnectionManager objects constructed so far
    workers,            \* the request threads that serve requests
    req,                \* per request thread: the call in progress
    prev                \* the last execute that returned a result

vars ==
    <<phase, clock, registry, request_property, managers_created,
      workers, req, prev>>

QueryNames == {"ldap_login_query", "ldap_groups_query"}

Pending == [kind |-> "pending", value |-> <<>>, exc |-> ""]

ReturnNone == [kind |-> "None", value |-> <<>>, exc |-> ""]

Return(v) == [kind |-> "value", value |-> <<v>>, exc |-> ""]

Raise(e) == [kind |-> "raise", value |-> <<>>, exc |-> e]

\* a request thread with no call in progress
Idle ==
    [pc |-> "idle", op |-> "", login |-> "", password |-> "", userdn |-> "",
     ldap_connector |-> None, trusted |-> "none", query |-> "",
     cache_key |-> <<>>, ts |-> 0, hit |-> FALSE, searched |-> FALSE,
     result |-> None, login_dn |-> None, verify |-> None,
     group_list |-> Pending,
     ret |-> Pending]

NoExecute ==
    [query |-> "", cache_key |-> <<>>, ts |-> 0, searched |-> FALSE,
     result |-> None]

InitWith(w) ==
    /\ phase = "config"
    /\ clock = 0
    /\ registry = [ldap_login_query |-> None, ldap_groups_query |-> None]
    /\ request_property = None
    /\ managers_created = 0
    /\ workers = w
    /\ req = [r \in Requests |-> Idle]
    /\ prev = NoExecute

\* a server with one thread: calls run one at a time
Init == InitWith({1})

\* ------------------------------------------------------------------------
\* Configuration directives
\* ------------------------------------------------------------------------

CachePeriods == {0, CachePeriod}

\* Connector.__init__: the registry is the one shared registry
Connector(manager) == [manager |-> manager]

\* the schemes, hosts and ports URIs are written with; a port of -1 and a
\* scheme of None stand for a URI that names none
Schemes ==
    { None, Some(<<"l", "d", "a", "p">>), Some(<<"l", "d", "a", "p", "s">>),
      Some(<<"L", "D", "A", "P", "S">>), Some(<<"h", "t", "t", "p">>) }

Hosts ==
    { <<"d", "i", "r">>, <<"d", ".", "e">>, <<"l", "d", "a", "p", "s">>,
      <<"1", "0">> }

Ports == {-1, 0, 7, 389, 636, 1389}

\* the decimal digits of a natural number
RECURSIVE Digits(_)
Digits(n) ==
    LET last == CHOOSE ch \in Digit : DigitValue(ch) = n % 10
    IN  IF n < 10 THEN <<last>> ELSE Append(Digits(n \div 10), last)

\* the URI [scheme://]host[:port]
WriteURI(scheme, host, port) ==
    (IF scheme = None THEN << >> ELSE scheme[1] \o SchemeSeparator)
        \o host
        \o (IF port = -1 THEN << >> ELSE PortSeparator \o Digits(port))

\* the URIs ldap_setup is called with: any of them where the configuration
\* alone is run, one of them where requests are served
SetupURIs ==
    IF workers = {}
    THEN [scheme : Schemes, host : Hosts, port : Ports]
    ELSE {[scheme |-> Some(<<"l", "d", "a", "p">>),
           host |-> <<"d", "i", "r">>, port |-> -1]}

\* ldap_setup: constructs a manager and registers the request property
\* whose get_connector closes over it
ldap_setup ==
    /\ phase = "config"
    /\ managers_created < MaxSetups
    /\ managers_created' = managers_created + 1
    /\ \E given \in SetupURIs :
          request_property' =
              Some([manager |->
                        ConnectionManager(managers_created + 1,
                            WriteURI(given.scheme, given.host, given.port)),
                    given |-> given])
    /\ UNCHANGED <<phase, clock, registry, workers, req, prev>>

ldap_set_login_query ==
    /\ phase = "config"
    /\ \E cache_period \in CachePeriods :
          registry' = [registry EXCEPT !.ldap_login_query =
              Some(LDAPQuery(LoginBaseDN, LoginFilter,
                             SEARCH_SCOPE_SINGLE_LEVEL, cache_period))]
    /\ UNCHANGED <<phase, clock, request_property, managers_created,
                   workers, req, prev>>

ldap_set_groups_query ==
    /\ phase = "config"
    /\ \E cache_period \in CachePeriods :
          registry' = [registry EXCEPT !.ldap_groups_query =
              Some(LDAPQuery(GroupsBaseDN, GroupsFilter,
                             SEARCH_SCOPE_WHOLE_SUBTREE, cache_period))]
    /\ UNCHANGED <<phase, clock, request_property, managers_created,
                   workers, req, prev>>

\* the configuration is committed and the application starts serving
StartServing ==
    /\ phase = "config"
    /\ phase' = "serving"
    /\ UNCHANGED <<clock, registry, request_property, managers_created,
                   workers, req, prev>>

\* time passes
Tick ==
    /\ phase = "serving"
    /\ clock < MaxTime
    /\ clock' = clock + 1
    /\ UNCHANGED <<phase, registry, request_property, managers_created,
                   workers, req, prev>>

\* ------------------------------------------------------------------------
\* Requests
\* ------------------------------------------------------------------------

\* a serving thread that is idle may take up a call
MayBegin(r) ==
    /\ phase = "serving"
    /\ r \in workers
    /\ req[r].pc = "idle"

\* get_ldap_connector(request).authenticate(login, password)
CallAuthenticate(r) ==
    /\ MayBegin(r)
    /\ \E login \in Logins, password \in Passwords :
          req' = [req EXCEPT ![r] =
              [Idle EXCEPT !.pc = "get_ldap_connector",
                           !.op = "authenticate",
                           !.login = login, !.password = password]]
    /\ UNCHANGED <<phase, clock, registry, request_property,
                   managers_created, workers, prev>>

\* the names user_groups is asked about: where several threads serve, two
\* names, so that their searches have two keys
CallerDNs ==
    IF Cardinality(workers) > 1 THEN {"cn=alice", "cn=bob"} ELSE UserDNs

\* get_ldap_connector(request).user_groups(userdn)
CallUserGroups(r) ==
    /\ MayBegin(r)
    /\ \E userdn \in CallerDNs :
          req' = [req EXCEPT ![r] =
              [Idle EXCEPT !.pc = "get_ldap_connector",
                           !.op = "user_groups", !.userdn = userdn]]
    /\ UNCHANGED <<phase, clock, registry, request_property,
                   managers_created, workers, prev>>

\* groupfinder(userdn, request)
CallGroupfinder(r) ==
    /\ MayBegin(r)
    /\ \E userdn \in UserDNs :
          req' = [req EXCEPT ![r] =
              [Idle EXCEPT !.pc = "get_ldap_connector",
                           !.op = "groupfinder", !.userdn = userdn]]
    /\ UNCHANGED <<phase, clock, registry, request_property,
                   managers_created, workers, prev>>

\* the call has ended and its request is over
Finish(r) ==
    /\ req[r].pc = "done"
    /\ req' = [req EXCEPT ![r] = Idle]
    /\ UNCHANGED <<phase, clock, registry, request_property,
                   managers_created, workers, prev>>

\* the ldap3 library is installed (the module's stand-in class, on which
\* LDAPException is Exception, exists for documentation builds only)
Ldap3Installed == TRUE

\* request.ldap_connector, reified on first access: get_connector(request)
\* when ldap_setup registered the property, no such attribute otherwise
RequestConnector ==
    IF request_property = None
    THEN None
    ELSE Some(Connector(request_property[1].manager))

\* GetLdapConnector answering None where no connector is attached
GetLdapConnectorReturnsNone(c, connector) ==
    IF connector = None
    THEN [c EXCEPT !.pc = "done", !.ret = ReturnNone]
    ELSE [c EXCEPT !.ldap_connector = connector,
                   !.pc = IF c.op = "authenticate" THEN "authenticate"
                          ELSE "user_groups"]

\* the call as get_ldap_connector leaves it
GetLdapConnector(c, connector) ==
    IF connector = None
    THEN IF ~Ldap3Installed
         THEN [c EXCEPT !.pc = "done", !.ret = Raise("ImportError")]
         ELSE [c EXCEPT !.pc = "done",
                        !.ret = Raise("ConfigurationError")]
    ELSE [c EXCEPT !.ldap_connector = connector,
                   !.pc = IF c.op = "authenticate" THEN "authenticate"
                          ELSE "user_groups"]

get_ldap_connector(r) ==
    /\ req[r].pc = "get_ldap_connector"
    /\ req' = [req EXCEPT ![r] = GetLdapConnector(req[r], RequestConnector)]
    /\ UNCHANGED <<phase, clock, registry, request_property,
                   managers_created, workers, prev>>

\* ------------------------------------------------------------------------
\* _LDAPQuery.execute
\* ------------------------------------------------------------------------

\* user_groups hands v back to its caller: the caller of the method, or
\* groupfinder
UserGroupsReturned(c, v) ==
    IF c.op = "groupfinder"
    THEN [c EXCEPT !.group_list = v, !.pc = "groupfinder"]
    ELSE [c EXCEPT !.group_list = v, !.ret = v, !.pc = "done"]

\* execute returns result to the method that called it
ExecuteReturned(c, result) ==
    IF c.op = "authenticate"
    THEN [c EXCEPT !.result = Some(result), !.pc = "resolve_dn"]
    ELSE UserGroupsReturned([c EXCEPT !.result = Some(result)],
                            Return(result))

\* ExecuteRaised without the except clause of user_groups
ExecuteRaisedPropagates(c) ==
    IF c.op = "authenticate"
    THEN [c EXCEPT !.pc = "done", !.ret = Raise("LDAPException")]
    ELSE [c EXCEPT !.pc = "done", !.group_list = Raise("LDAPException"),
                   !.ret = Raise("LDAPException")]

\* ExecuteRaised with authenticate answering None to an error of the search
ExecuteRaisedReturnsNone(c) ==
    IF c.op = "authenticate"
    THEN [c EXCEPT !.pc = "done", !.ret = ReturnNone]
    ELSE UserGroupsReturned(c, ReturnNone)

\* execute raises LDAPException: authenticate lets it pass, user_groups
\* catches it and returns None
ExecuteRaised(c) ==
    IF c.op = "authenticate"
    THEN [c EXCEPT !.pc = "done", !.ret = Raise("LDAPException")]
    ELSE UserGroupsReturned(c, ReturnNone)

Executed(c) ==
    [query |-> c.query, cache_key |-> c.cache_key, ts |-> c.ts,
     searched |-> c.searched, result |-> c.result]

\* execute up to its use of the cache: with a cache period, query_cache is
\* entered and reads the clock
execute(r) ==
    /\ req[r].pc = "execute"
    /\ LET c == req[r]
           q == registry[c.query][1]
       IN  req' = [req EXCEPT ![r] =
               IF q.cache_period # 0
               THEN [c EXCEPT !.ts = _timeslice(q.cache_period, clock),
                              !.pc = "query_cache"]
               ELSE [c EXCEPT !.pc = "search"]]
    /\ UNCHANGED <<phase, clock, registry, request_property,
                   managers_created, workers, prev>>

\* if ts > self.last_timeslice
query_cache(r) ==
    /\ req[r].pc = "query_cache"
    /\ LET c == req[r]
           q == registry[c.query][1]
       IN  req' = [req EXCEPT ![r] =
               [c EXCEPT !.pc = IF Expired(q, c.ts)
                                THEN "dump" ELSE "get"]]
    /\ UNCHANGED <<phase, clock, registry, request_property,
                   managers_created, workers, prev>>

\* self.cache = {}
dump(r) ==
    /\ req[r].pc = "dump"
    /\ LET c == req[r]
           q == registry[c.query][1]
       IN  /\ registry' = [registry EXCEPT ![c.query] = Some(Dumped(q))]
           /\ req' = [req EXCEPT ![r] = [c EXCEPT !.pc = "last_timeslice"]]
    /\ UNCHANGED <<phase, clock, request_property, managers_created,
                   workers, prev>>

\* self.last_timeslice = ts
set_last_timeslice(r) ==
    /\ req[r].pc = "last_timeslice"
    /\ LET c == req[r]
           q == registry[c.query][1]
       IN  /\ registry' = [registry EXCEPT ![c.query] =
                              Some([q EXCEPT !.last_timeslice = c.ts])]
           /\ req' = [req EXCEPT ![r] = [c EXCEPT !.pc = "get"]]
    /\ UNCHANGED <<phase, clock, request_property, managers_created,
                   workers, prev>>

\* return self.cache.get(cache_key), and execute's test of what it returned
cache_get(r) ==
    /\ req[r].pc = "get"
    /\ LET c == req[r]
           q == registry[c.query][1]
           result == CacheGet(q.cache, c.cache_key)
       IN  IF result = None
           THEN /\ req' = [req EXCEPT ![r] = [c EXCEPT !.pc = "search"]]
                /\ UNCHANGED prev
           ELSE LET done == ExecuteReturned([c EXCEPT !.hit = TRUE],
                                            result[1])
                IN  /\ req' = [req EXCEPT ![r] = done]
                    /\ prev' = Executed(done)
    /\ UNCHANGED <<phase, clock, registry, request_property,
                   managers_created, workers>>

\* SearchReturned storing the response whatever the cache period
SearchReturnedAlwaysStores(c, q, response) ==
    [c EXCEPT !.result = Some(response), !.pc = "store"]

\* the call once get_response has handed back the response: with a cache
\* period the response is yet to be stored, without one execute returns it
SearchReturned(c, q, response) ==
    IF q.cache_period # 0
    THEN [c EXCEPT !.result = Some(response), !.pc = "store"]
    ELSE ExecuteReturned(c, response)

\* conn.search and conn.get_response: a response, or LDAPException
search(r) ==
    /\ req[r].pc = "search"
    /\ LET c == [req[r] EXCEPT !.searched = TRUE]
           q == registry[c.query][1]
       IN  \E raised \in BOOLEAN, response \in SearchResults(c.query) :
              IF raised
              THEN /\ req' = [req EXCEPT ![r] = ExecuteRaised(c)]
                   /\ prev' = NoExecute
              ELSE LET returned == SearchReturned(c, q, response)
                   IN  /\ req' = [req EXCEPT ![r] = returned]
                       /\ prev' = IF returned.pc = "store"
                                  THEN prev
                                  ELSE Executed(returned)
    /\ UNCHANGED <<phase, clock, registry, request_property,
                   managers_created, workers>>

\* self.cache[cache_key] = result
store(r) ==
    /\ req[r].pc = "store"
    /\ LET c == req[r]
           q == registry[c.query][1]
           done == ExecuteReturned(c, c.result[1])
       IN  /\ registry' = [registry EXCEPT ![c.query] =
                   Some(Stored(q, c.cache_key, c.result[1], c.ts))]
           /\ req' = [req EXCEPT ![r] = done]
           /\ prev' = Executed(done)
    /\ UNCHANGED <<phase, clock, request_property, managers_created,
                   workers>>

\* ------------------------------------------------------------------------
\* Connector
\* ------------------------------------------------------------------------

\* Authenticate without the check for the empty password
AuthenticateBindsEmptyPassword(c, reachable, login_query) ==
    IF ~reachable
    THEN [c EXCEPT !.pc = "done", !.trusted = "failed",
                   !.ret = Raise("LDAPException")]
    ELSE IF login_query = None
    THEN [c EXCEPT !.pc = "done", !.trusted = "acquired",
                   !.ret = Raise("ConfigurationError")]
    ELSE [c EXCEPT !.pc = "execute", !.trusted = "acquired",
                   !.query = "ldap_login_query",
                   !.cache_key =
                       CacheKey(login_query[1],
                                [login |-> c.login,
                                 password |-> c.password])]

\* Connector.authenticate up to the login search.  reachable: whether
\* manager.connection() returned a connection rather than raising;
\* login_query: registry.ldap_login_query
Authenticate(c, reachable, login_query) ==
    IF c.password = ""
    THEN [c EXCEPT !.pc = "done", !.ret = ReturnNone]
    ELSE IF ~reachable
    THEN [c EXCEPT !.pc = "done", !.trusted = "failed",
                   !.ret = Raise("LDAPException")]
    ELSE IF login_query = None
    THEN [c EXCEPT !.pc = "done", !.trusted = "acquired",
                   !.ret = Raise("ConfigurationError")]
    ELSE [c EXCEPT !.pc = "execute", !.trusted = "acquired",
                   !.query = "ldap_login_query",
                   !.cache_key =
                       CacheKey(login_query[1],
                                [login |-> c.login,
                                 password |-> c.password])]

authenticate(r) ==
    /\ req[r].pc = "authenticate"
    /\ \E reachable \in BOOLEAN :
          req' = [req EXCEPT ![r] =
              Authenticate(req[r], reachable, registry.ldap_login_query)]
    /\ UNCHANGED <<phase, clock, registry, request_property,
                   managers_created, workers, prev>>

\* login_dn = result[0]['dn'], None returned on IndexError or KeyError
ResolveDN(c) ==
    LET result == c.result[1]
    IN  IF Len(result) = 0 \/ "dn" \notin DOMAIN result[1]
        THEN [c EXCEPT !.pc = "done", !.ret = ReturnNone]
        ELSE [c EXCEPT !.pc = "verify", !.login_dn = Some(result[1].dn)]

resolve_dn(r) ==
    /\ req[r].pc = "resolve_dn"
    /\ req' = [req EXCEPT ![r] = ResolveDN(req[r])]
    /\ UNCHANGED <<phase, clock, registry, request_property,
                   managers_created, workers, prev>>

\* the steps of the verification, any of which may raise LDAPException
VerifySteps == {"connection", "open", "bind", "close"}

\* the bind of a connection completes: the manager's own identity, a name
\* with its password, or an unauthenticated bind the server lets through
BindCompletes(manager, conn) ==
    \/ conn.user = manager.bind /\ conn.password = manager.passwd
    \/ DirAccepts(conn.user, conn.password)
    \/ Unauthenticated(conn.user, conn.password)

\* Verify without the except clause: the LDAPException reaches the caller
VerifyPropagates(c, raising) ==
    LET conn == Connection(c.ldap_connector[1].manager, c.login_dn[1],
                           c.password)
        verify == [conn |-> conn, raised |-> raising,
                   created |-> raising # "connection",
                   bound |-> raising \notin {"connection", "bind"},
                   closed |-> raising = "none"]
    IN  IF raising = "none"
        THEN [c EXCEPT !.pc = "done", !.verify = Some(verify),
                       !.ret = Return(c.result[1][1])]
        ELSE [c EXCEPT !.pc = "done", !.verify = Some(verify),
                       !.ret = Raise("LDAPException")]

\* the verification of authenticate and its return.  raising: the step
\* that raises LDAPException, or "none"
Verify(c, raising) ==
    LET conn == Connection(c.ldap_connector[1].manager, c.login_dn[1],
                           c.password)
        verify == [conn |-> conn, raised |-> raising,
                   created |-> raising # "connection",
                   bound |-> raising \notin {"connection", "bind"},
                   closed |-> raising = "none"]
    IN  IF raising = "none"
        THEN [c EXCEPT !.pc = "done", !.verify = Some(verify),
                       !.ret = Return(c.result[1][1])]
        ELSE [c EXCEPT !.pc = "done", !.verify = Some(verify),
                       !.ret = ReturnNone]

verify(r) ==
    /\ req[r].pc = "verify"
    /\ \E raising \in VerifySteps \cup {"none"} :
          /\ raising = "none" =>
                 BindCompletes(req[r].ldap_connector[1].manager,
                               Connection(req[r].ldap_connector[1].manager,
                                          req[r].login_dn[1],
                                          req[r].password))
          /\ req' = [req EXCEPT ![r] = Verify(req[r], raising)]
    /\ UNCHANGED <<phase, clock, registry, request_property,
                   managers_created, workers, prev>>

\* UserGroups answering None where no groups query is registered
UserGroupsSwallowsMissingQuery(c, reachable, groups_query) ==
    IF ~reachable
    THEN [c EXCEPT !.pc = "done", !.trusted = "failed",
                   !.group_list = Raise("LDAPException"),
                   !.ret = Raise("LDAPException")]
    ELSE IF groups_query = None
    THEN [c EXCEPT !.pc = "done", !.trusted = "acquired",
                   !.group_list = ReturnNone, !.ret = ReturnNone]
    ELSE [c EXCEPT !.pc = "execute", !.trusted = "acquired",
                   !.query = "ldap_groups_query",
                   !.cache_key =
                       CacheKey(groups_query[1], [userdn |-> c.userdn])]

\* Connector.user_groups up to the groups search; an exception it raises
\* is also groupfinder's
UserGroups(c, reachable, groups_query) ==
    IF ~reachable
    THEN [c EXCEPT !.pc = "done", !.trusted = "failed",
                   !.group_list = Raise("LDAPException"),
                   !.ret = Raise("LDAPException")]
    ELSE IF groups_query = None
    THEN [c EXCEPT !.pc = "done", !.trusted = "acquired",
                   !.group_list = Raise("ConfigurationError"),
                   !.ret = Raise("ConfigurationError")]
    ELSE [c EXCEPT !.pc = "execute", !.trusted = "acquired",
                   !.query = "ldap_groups_query",
                   !.cache_key =
                       CacheKey(groups_query[1], [userdn |-> c.userdn])]

user_groups(r) ==
    /\ req[r].pc = "user_groups"
    /\ \E reachable \in BOOLEAN :
          req' = [req EXCEPT ![r] =
              UserGroups(req[r], reachable, registry.ldap_groups_query)]
    /\ UNCHANGED <<phase, clock, registry, request_property,
                   managers_created, workers, prev>>

\* [group['dn'] for group in group_list]
GroupDNs(group_list) == [i \in 1..Len(group_list) |-> group_list[i].dn]

\* groupfinder after user_groups returned
Groupfinder(c) ==
    IF c.group_list.kind = "None"
    THEN [c EXCEPT !.pc = "done", !.ret = ReturnNone]
    ELSE LET group_list == c.group_list.value[1]
         IN  IF \A i \in 1..Len(group_list) : "dn" \in DOMAIN group_list[i]
             THEN [c EXCEPT !.pc = "done",
                            !.ret = Return(GroupDNs(group_list))]
             ELSE [c EXCEPT !.pc = "done", !.ret = Raise("KeyError")]

groupfinder(r) ==
    /\ req[r].pc = "groupfinder"
    /\ req' = [req EXCEPT ![r] = Groupfinder(req[r])]
    /\ UNCHANGED <<phase, clock, registry, request_property,
                   managers_created, workers, prev>>

\* ------------------------------------------------------------------------
\* Specification
\* ------------------------------------------------------------------------

Next ==
    \/ ldap_setup
    \/ ldap_set_login_query
    \/ ldap_set_groups_query
    \/ StartServing
    \/ Tick
    \/ \E r \in Requests :
          \/ CallAuthenticate(r)
          \/ CallUserGroups(r)
          \/ CallGroupfinder(r)
          \/ get_ldap_connector(r)
          \/ authenticate(r)
          \/ execute(r)
          \/ query_cache(r)
          \/ dump(r)
          \/ set_last_timeslice(r)
          \/ cache_get(r)
          \/ search(r)
          \/ store(r)
          \/ resolve_dn(r)
          \/ verify(r)
          \/ user_groups(r)
          \/ groupfinder(r)
          \/ Finish(r)

Spec == Init /\ [][Next]_vars

\* the configuration alone: no request is served
InitURI == InitWith({})

NextURI ==
    \/ ldap_setup
    \/ ldap_set_login_query
    \/ ldap_set_groups_query

SpecURI == InitURI /\ [][NextURI]_vars

\* a server with a thread per request, serving user_groups with a groups
\* query that caches: the configuration is over
InitConc ==
    /\ phase = "serving"
    /\ clock = 0
    /\ registry =
           [ldap_login_query |-> None,
            ldap_groups_query |->
                Some(LDAPQuery(GroupsBaseDN, GroupsFilter,
                               SEARCH_SCOPE_WHOLE_SUBTREE, CachePeriod))]
    /\ request_property =
           Some([manager |->
                     ConnectionManager(1, WriteURI(None, <<"d", "i", "r">>,
                                                   -1)),
                 given |-> [scheme |-> None, host |-> <<"d", "i", "r">>,
                            port |-> -1]])
    /\ managers_created = 1
    /\ workers = Requests
    /\ req = [r \in Requests |-> Idle]
    /\ prev = NoExecute

NextConc ==
    \/ Tick
    \/ \E r \in Requests :
          \/ CallUserGroups(r)
          \/ get_ldap_connector(r)
          \/ user_groups(r)
          \/ execute(r)
          \/ query_cache(r)
          \/ dump(r)
          \/ set_last_timeslice(r)
          \/ cache_get(r)
          \/ search(r)
          \/ store(r)
          \/ Finish(r)

SpecConc == InitConc /\ [][NextConc]_vars

\* ------------------------------------------------------------------------
\* Properties
\* ------------------------------------------------------------------------

\* the call of request r has ended
Done(r) == req[r].pc = "done"

\* request r obtained a connector, so the Connector method it asked for ran
Entered(r) == req[r].ldap_connector # None

\* the steps of _LDAPQuery.execute
ExecutePcs ==
    {"execute", "query_cache", "dump", "last_timeslice", "get", "search",
     "store"}

\* the cache period of the query request r executes
PeriodOf(r) == registry[req[r].query][1].cache_period

\* the call of request r issued no search and no verification bind
NoSearchNoVerify(r) == ~req[r].searched /\ req[r].verify = None

\* C1: authenticate called with the empty password returns None and does
\* nothing else: it acquires no trusted connection, issues no search, creates
\* no verification connection and leaves the registered queries, their
\* caches included, as they were -- whatever the login, whether or not a
\* login query is registered and whether or not the directory is reachable.
C1_EmptyPasswordTouchesNothing ==
    [][\A r \in Requests :
          (/\ req[r].pc = "authenticate"
           /\ req[r].password = ""
           /\ req'[r] # req[r])
          => /\ req'[r].pc = "done"
             /\ req'[r].ret = ReturnNone
             /\ req'[r].trusted = "none"
             /\ ~req'[r].searched
             /\ req'[r].verify = None
             /\ registry' = registry]_vars

\* an authenticate with the empty password has returned None while a login
\* query with a filled cache is registered
C1_Witness ==
    \E r \in Requests :
        /\ Done(r) /\ Entered(r)
        /\ req[r].op = "authenticate"
        /\ req[r].password = ""
        /\ req[r].ret = ReturnNone
        /\ registry.ldap_login_query # None
        /\ DOMAIN registry.ldap_login_query[1].cache # {}

\* C2: whenever authenticate returns an entry, the verification of that call
\* created a new synchronous connection of its own for the entry's
\* distinguished name and the supplied password and bound it; the
\* verification never binds as the manager's own identity and never uses the
\* manager's pooled connection, the empty distinguished name included.
C2_VerifyBindsAsResolvedDN ==
    \A r \in Requests :
        (Done(r) /\ req[r].op = "authenticate" /\ req[r].ret.kind = "value")
        => /\ req[r].verify # None
           /\ req[r].verify[1].created
           /\ req[r].verify[1].bound
           /\ req[r].verify[1].conn.strategy = "SYNC"
           /\ req[r].verify[1].conn.pool_name = "none"
           /\ req[r].verify[1].conn.user = req[r].ret.value[1].dn
           /\ req[r].verify[1].conn.password = req[r].password

\* request r's step ends an execute that returns a result
ExecuteReturns(r) ==
    /\ req[r].pc \in ExecutePcs
    /\ req'[r].pc \notin ExecutePcs
    /\ req'[r].result # None

\* C3: with a cache period > 0, when an execute returns a result and the
\* execute before it on the same query had the same key and returned a
\* result (an empty one included): if both looked at the clock in the same
\* time slice, the later one issues no search and returns the result of the
\* earlier one, so a first call that searched and the call after it issue
\* exactly one search; if they looked in different slices, the later one
\* issues a search of its own.
C3_SameSliceHitsOtherSliceSearches ==
    [][\A r \in Requests :
          (/\ ExecuteReturns(r)
           /\ PeriodOf(r) > 0
           /\ prev.query = req[r].query
           /\ prev.cache_key = req[r].cache_key)
          => IF prev.ts = req'[r].ts
             THEN ~req'[r].searched /\ req'[r].result = prev.result
             ELSE req'[r].searched]_vars

\* an execute of the login query has returned an empty result from the cache
\* without searching
C3_Witness ==
    \E r \in Requests :
        /\ req[r].query = "ldap_login_query"
        /\ req[r].hit
        /\ ~req[r].searched
        /\ req[r].result = Some(<< >>)
        /\ prev = Executed(req[r])

\* C4: with cache period 0 every execute issues a search, however often the
\* same key was used before, and no step of it changes the query: its cache
\* stays the empty mapping and its last time slice stays 0.
C4_NoCachePeriodAlwaysSearches ==
    [][\A r \in Requests :
          (/\ req[r].pc \in ExecutePcs
           /\ req'[r] # req[r]
           /\ PeriodOf(r) = 0)
          => /\ registry' = registry
             /\ registry[req[r].query][1].cache = EmptyCache
             /\ registry[req[r].query][1].last_timeslice = 0
             /\ req'[r].pc \notin ExecutePcs => req'[r].searched]_vars

\* an execute with cache period 0 goes on to search although the execute
\* before it searched for the same key and got a result
C4_Witness ==
    \E r \in Requests :
        /\ req[r].pc = "search"
        /\ PeriodOf(r) = 0
        /\ prev.query = req[r].query
        /\ prev.cache_key = req[r].cache_key
        /\ prev.searched
        /\ prev.result # None

\* the query a call needs was never registered
MissingQuery(r) ==
    \/ req[r].op = "authenticate" /\ registry.ldap_login_query = None
    \/ /\ req[r].op \in {"user_groups", "groupfinder"}
       /\ registry.ldap_groups_query = None

\* what the Connector method of request r gave its caller
MethodOutcome(r) ==
    IF req[r].op = "authenticate" THEN req[r].ret ELSE req[r].group_list

\* C5 as claimed: every authenticate called while no login query is
\* registered, and every user_groups called while no groups query is
\* registered, raises ConfigurationError and issues no search and no
\* verification bind.
C5_MissingQueryAlwaysConfigurationError ==
    \A r \in Requests :
        (Done(r) /\ Entered(r) /\ MissingQuery(r))
        => /\ MethodOutcome(r) = Raise("ConfigurationError")
           /\ NoSearchNoVerify(r)

\* C5 as amended: while the query it needs is not registered, a call issues
\* no search and no verification bind and raises ConfigurationError once the
\* trusted connection is acquired; authenticate with the empty password
\* returns None before that, and when acquiring the trusted connection
\* raises LDAPException the caller gets that exception.
C5_MissingQueryAmended ==
    \A r \in Requests :
        (Done(r) /\ Entered(r) /\ MissingQuery(r))
        => /\ MethodOutcome(r) =
                 IF req[r].op = "authenticate" /\ req[r].password = ""
                 THEN ReturnNone
                 ELSE IF req[r].trusted = "failed"
                 THEN Raise("LDAPException")
                 ELSE Raise("ConfigurationError")
           /\ req[r].trusted = "none"
                  <=> (req[r].op = "authenticate" /\ req[r].password = "")
           /\ NoSearchNoVerify(r)

\* user_groups, called through groupfinder with the trusted connection
\* acquired and no groups query registered, has raised ConfigurationError
C5_Witness ==
    \E r \in Requests :
        /\ Done(r) /\ Entered(r) /\ MissingQuery(r)
        /\ req[r].op = "groupfinder"
        /\ req[r].trusted = "acquired"
        /\ req[r].ret = Raise("ConfigurationError")

\* the login search of request r returned a result without a usable first
\* entry: no entry at all, or a first entry that carries no 'dn'
Unresolvable(r) ==
    /\ req[r].result # None
    /\ \/ Len(req[r].result[1]) = 0
       \/ "dn" \notin DOMAIN req[r].result[1][1]

\* a step of the verification of request r raised LDAPException
VerifyRaised(r) ==
    req[r].verify # None /\ req[r].verify[1].raised # "none"

\* C6: with a login query registered and the trusted connection acquired,
\* an authenticate that fails because the password is empty, because the
\* login search gave no entry or a first entry without a distinguished name,
\* or because creating, opening, binding or closing the verification
\* connection raised LDAPException returns None each time, the same value,
\* and raises nothing.
C6_CredentialFailuresReturnNone ==
    \A r \in Requests :
        (/\ Done(r) /\ Entered(r)
         /\ req[r].op = "authenticate"
         /\ registry.ldap_login_query # None
         /\ req[r].trusted # "failed"
         /\ req[r].password = "" \/ Unresolvable(r) \/ VerifyRaised(r))
        => req[r].ret = ReturnNone

\* an authenticate whose verification bind raised has returned None
C6_Witness ==
    \E r \in Requests :
        /\ Done(r)
        /\ req[r].op = "authenticate"
        /\ req[r].verify # None
        /\ req[r].verify[1].raised = "bind"
        /\ req[r].verify[1].conn.user = "cn=alice"
        /\ req[r].ret = ReturnNone

\* C7: authenticate returns an entry only if the login search returned one
\* and only one entry.
C7_OnlyOneEntryIsAValidLogin ==
    \A r \in Requests :
        (Done(r) /\ req[r].op = "authenticate" /\ req[r].ret.kind = "value")
        => Len(req[r].result[1]) = 1

\* user_groups of request r ran its groups query and came back
UserGroupsRan(r) ==
    /\ req[r].op \in {"user_groups", "groupfinder"}
    /\ registry.ldap_groups_query # None
    /\ req[r].trusted = "acquired"
    /\ req[r].group_list # Pending

\* C8: with a groups query registered and the trusted connection acquired,
\* when executing the groups query raises LDAPException user_groups returns
\* None and groupfinder returns None, not an empty list; when execute
\* returns, user_groups returns that result sequence as it is: every entry,
\* in the same order.
C8_UserGroupsNoneOnErrorElseWholeResult ==
    \A r \in Requests :
        UserGroupsRan(r)
        => IF req[r].result = None
           THEN /\ req[r].searched
                /\ req[r].group_list = ReturnNone
                /\ Done(r) => req[r].ret = ReturnNone
           ELSE /\ req[r].group_list = Return(req[r].result[1])
                /\ (Done(r) /\ req[r].op = "user_groups")
                       => req[r].ret = Return(req[r].result[1])

\* the groups search of a groupfinder call raised and groupfinder returned
\* None
C8_Witness ==
    \E r \in Requests :
        /\ Done(r) /\ UserGroupsRan(r)
        /\ req[r].op = "groupfinder"
        /\ req[r].searched
        /\ req[r].result = None
        /\ req[r].ret = ReturnNone

\* C9: groupfinder returns None exactly when user_groups returned None;
\* otherwise it returns a list as long as the user_groups result whose i-th
\* element is the distinguished name of the i-th group entry.
C9_GroupfinderNoneOrListOfDNs ==
    \A r \in Requests :
        (/\ Done(r)
         /\ req[r].op = "groupfinder"
         /\ req[r].group_list.kind \in {"None", "value"})
        => IF req[r].group_list.kind = "None"
           THEN req[r].ret = ReturnNone
           ELSE /\ req[r].ret.kind = "value"
                /\ Len(req[r].ret.value[1]) = Len(req[r].group_list.value[1])
                /\ \A i \in 1..Len(req[r].group_list.value[1]) :
                      req[r].ret.value[1][i] =
                          req[r].group_list.value[1][i].dn

\* C10: while ldap_setup was never called, every call made through
\* get_ldap_connector (authenticate, user_groups, groupfinder) ends there,
\* raising ConfigurationError, with no trusted connection, no search and no
\* verification bind; once ldap_setup was called, the connector a request
\* gets holds the manager that ldap_setup constructed, the same one for
\* every request.
C10_NoSetupConfigurationErrorElseSharedManager ==
    \A r \in Requests :
        /\ (request_property = None
            /\ req[r].pc \notin {"idle", "get_ldap_connector"})
           => /\ Done(r)
              /\ req[r].ret = Raise("ConfigurationError")
              /\ req[r].trusted = "none"
              /\ NoSearchNoVerify(r)
        /\ (request_property # None /\ Entered(r))
           => /\ req[r].ldap_connector[1].manager =
                     request_property[1].manager
              /\ req[r].ldap_connector[1].manager.id = managers_created

\* an authenticate attempted without ldap_setup has raised
\* ConfigurationError
C10_Witness ==
    \E r \in Requests :
        /\ Done(r)
        /\ request_property = None
        /\ req[r].op = "authenticate"
        /\ req[r].ret = Raise("ConfigurationError")
        /\ registry.ldap_login_query # None

\* C11: for every URI [scheme://]host[:port] the manager's server has
\* use_ssl exactly when the scheme is ldaps (no scheme: plaintext), the port
\* that is written in the URI or else 636 with use_ssl and 389 without, and
\* the host that stands between the scheme separator and the port separator.
C11_URIParsedIntoHostPortEncryption ==
    request_property # None
    => LET given == request_property[1].given
           server == request_property[1].manager.server
       IN  /\ server.use_ssl
                  <=> given.scheme = Some(<<"l", "d", "a", "p", "s">>)
           /\ server.port =
                  IF given.port # -1 THEN given.port
                  ELSE IF server.use_ssl THEN 636 ELSE 389
           /\ server.host = given.host

\* ldaps://dir without a port has given an encrypted server on port 636
C11_Witness ==
    /\ request_property # None
    /\ request_property[1].manager.uri =
           <<"l", "d", "a", "p", "s", ":", "/", "/", "d", "i", "r">>
    /\ request_property[1].manager.server =
           [host |-> <<"d", "i", "r">>, port |-> 636, use_ssl |-> TRUE]

\* C12: for every password, the absent one and the empty one included,
\* authenticate never issues a verification bind whose password is empty or
\* absent, and never returns an entry on the strength of an unauthenticated
\* bind.
C12_NoUnauthenticatedVerifyBind ==
    \A r \in Requests :
        (Done(r) /\ req[r].op = "authenticate" /\ req[r].verify # None)
        => /\ req[r].verify[1].raised \notin {"connection", "open"}
                  => req[r].verify[1].conn.password \notin {"", NoPassword}
           /\ req[r].ret.kind = "value"
                  => ~Unauthenticated(req[r].verify[1].conn.user,
                                      req[r].verify[1].conn.password)

\* C13: when the login search answered one or more entries and the
\* verification succeeded, the verification bound as the distinguished name
\* of the first entry and authenticate returns exactly that first entry; a
\* result of several entries is not rejected and no later entry is bound or
\* returned.
C13_FirstEntryVerifiedAndReturned ==
    \A r \in Requests :
        (/\ Done(r) /\ req[r].op = "authenticate"
         /\ req[r].verify # None
         /\ req[r].verify[1].raised = "none")
        => /\ req[r].verify[1].conn.user = req[r].result[1][1].dn
           /\ req[r].ret = Return(req[r].result[1][1])

\* C15: an LDAPException raised while authenticate acquires the trusted
\* connection or runs the login search reaches the caller as it is; only an
\* error of the verification becomes the answer None, so an answer of None
\* to a non-empty password is given only after the search has answered.
C15_LookupErrorsPropagate ==
    \A r \in Requests :
        (Done(r) /\ req[r].op = "authenticate" /\ req[r].password # "")
        => /\ req[r].trusted = "failed"
                  => req[r].ret = Raise("LDAPException")
           /\ (req[r].searched /\ req[r].result = None)
                  => req[r].ret = Raise("LDAPException")
           /\ (req[r].verify # None /\ req[r].verify[1].raised # "none")
                  => req[r].ret = ReturnNone
           /\ req[r].ret = ReturnNone
                  => req[r].trusted = "acquired" /\ req[r].result # None

\* the login search of an authenticate has raised and the call has ended
\* with that LDAPException
C15_Witness ==
    \E r \in Requests :
        /\ Done(r) /\ req[r].op = "authenticate"
        /\ req[r].trusted = "acquired"
        /\ req[r].searched /\ req[r].result = None
        /\ req[r].ret = Raise("LDAPException")

\* C18: caching never stands in for the verification: every authenticate
\* that returns an entry ran a verification bind of its own that succeeded,
\* a call served from the cache included, and an authenticate served from
\* the cache with a password the directory rejects for the cached entry
\* returns None.
C18_CacheNeverReplacesVerification ==
    \A r \in Requests :
        (Done(r) /\ req[r].op = "authenticate")
        => /\ req[r].ret.kind = "value"
                  => /\ req[r].verify # None
                     /\ req[r].verify[1].raised = "none"
                     /\ req[r].verify[1].bound
           /\ (/\ req[r].hit
               /\ Len(req[r].result[1]) > 0
               /\ "dn" \in DOMAIN req[r].result[1][1]
               /\ req[r].password \in DirectoryPasswords
               /\ ~DirAccepts(req[r].result[1][1].dn, req[r].password))
                  => req[r].ret = ReturnNone

\* C19: an ephemeral verification connection that was created is closed
\* before authenticate returns, on every path, the paths where open or bind
\* raises included.
C19_VerifyConnectionAlwaysClosed ==
    \A r \in Requests :
        (/\ Done(r) /\ req[r].op = "authenticate"
         /\ req[r].verify # None
         /\ req[r].verify[1].conn.strategy = "SYNC"
         /\ req[r].verify[1].created)
        => req[r].verify[1].closed \/ req[r].verify[1].raised = "close"

\* the query registered under name n caches and is being served
Caching(n) ==
    /\ phase = "serving"
    /\ registry[n] # None
    /\ registry[n][1].cache_period # 0

\* the cache loses entries only all at once, in the dump of an access whose
\* time slice is later than the last one seen; an access goes on to the
\* lookup without a dump only when its slice is not later; and after a dump
\* the lookup starts on the empty mapping with the last slice seen set to
\* the slice of the access
CacheDroppedOnlyWholesale ==
    \A n \in QueryNames :
        Caching(n)
        => LET q == registry[n][1]
               after == registry'[n][1]
           IN  /\ DOMAIN q.cache \ DOMAIN after.cache # {}
                      => /\ after.cache = EmptyCache
                         /\ \E r \in Requests :
                               /\ req[r].pc = "dump"
                               /\ req[r].query = n
                               /\ req[r].ts > q.last_timeslice
               /\ \A r \in Requests :
                      (/\ req[r].query = n
                       /\ req[r].pc = "query_cache"
                       /\ req'[r].pc = "get")
                      => req[r].ts <= q.last_timeslice
               /\ \A r \in Requests :
                      (/\ req[r].query = n
                       /\ req[r].pc = "query_cache"
                       /\ req'[r].pc = "dump")
                      => req[r].ts > q.last_timeslice
               /\ \A r \in Requests :
                      (/\ req[r].query = n
                       /\ req[r].pc = "last_timeslice"
                       /\ req'[r].pc = "get")
                      => /\ after.cache = EmptyCache
                         /\ after.last_timeslice = req[r].ts

\* a lookup that finds the key returns a result whose own lookup was made
\* in the time slice of this lookup
HitIsOfThisSlice ==
    \A r \in Requests :
        (req[r].pc = "get" /\ req'[r].hit)
        => registry[req[r].query][1].looked_up[req[r].cache_key] = req[r].ts

\* a result is stored while the clock is in the last time slice seen
StoredDuringLastSliceSeen ==
    \A r \in Requests :
        (req[r].pc = "store" /\ req'[r].pc # "store")
        => LET q == registry[req[r].query][1]
           IN  _timeslice(q.cache_period, clock) = q.last_timeslice

\* every key of the cache was looked up in the last time slice seen by the
\* execute that stored it
LookedUpInLastSliceSeen ==
    \A n \in QueryNames :
        Caching(n)
        => LET after == registry'[n][1]
           IN  \A k \in DOMAIN after.cache :
                   after.looked_up[k] = after.last_timeslice

\* C14 (as stated): with executes run one at a time, the cache is dropped
\* only wholesale, by an access whose time slice is later than the last one
\* seen and before its lookup; every key of the cache was stored during the
\* time slice equal to the last one seen; and no lookup returns a result of
\* an earlier slice.
C14_KeysStoredDuringLastSliceSeen ==
    [][/\ CacheDroppedOnlyWholesale
       /\ StoredDuringLastSliceSeen
       /\ HitIsOfThisSlice]_vars

\* C14 (amended): with executes run one at a time, the cache is dropped only
\* wholesale, by an access whose time slice is later than the last one seen
\* and before its lookup; every key of the cache was stored by an execute
\* whose lookup was made in the time slice equal to the last one seen (the
\* store itself may come after the clock has left that slice); and no lookup
\* returns a result of an earlier slice.
C14_KeysLookedUpInLastSliceSeen ==
    [][/\ CacheDroppedOnlyWholesale
       /\ LookedUpInLastSliceSeen
       /\ HitIsOfThisSlice]_vars

\* a cache that was dropped for a later time slice holds a key again
C14_Witness ==
    \E n \in QueryNames :
        /\ Caching(n)
        /\ registry[n][1].last_timeslice > 0
        /\ registry[n][1].cache # EmptyCache

\* C17: under any interleaving of concurrent executes with the clock
\* crossing into a later time slice, every key of the cache was stored by an
\* execute whose lookup was made in the time slice equal to the last one
\* seen: an execute that missed in an earlier slice does not store after
\* another has turned the cache over to a later slice.  Stated for the
\* states in which no request stands between the dump and the setting of
\* the last slice seen.
C17_NoStoreFromEarlierSlice ==
    \A n \in QueryNames :
        (/\ Caching(n)
         /\ \A r \in Requests :
                req[r].query = n => req[r].pc \notin {"dump", "last_timeslice"})
        => \A k \in DOMAIN registry[n][1].cache :
               registry[n][1].looked_up[k] = registry[n][1].last_timeslice

\* C16: when requests run execute concurrently inside one time slice, the
\* race to fill the cache is benign: an execute that is served from the cache
\* returns a complete result that was stored, and while the clock stays in
\* the time slice the cache has been turned over to, no step of a request
\* removes or changes the entry of that slice stored under a key other than
\* the request's own.
C16_RaceOnPopulationIsBenign ==
    [][\A n \in QueryNames, r \in Requests :
          (/\ Caching(n)
           /\ req[r].query = n
           /\ req'[r] # req[r]
           /\ clock' = clock
           /\ registry[n][1].last_timeslice =
                  _timeslice(registry[n][1].cache_period, clock))
          => LET q == registry[n][1]
                 after == registry'[n][1]
             IN  /\ req'[r].hit /\ ~req[r].hit
                        => /\ req[r].cache_key \in DOMAIN q.cache
                           /\ req'[r].result =
                                  Some(q.cache[req[r].cache_key])
                 /\ \A k \in DOMAIN q.cache \ {req[r].cache_key} :
                        q.looked_up[k] = q.last_timeslice
                        => /\ k \in DOMAIN after.cache
                           /\ after.cache[k] = q.cache[k]]_vars

====
